---------------------------- MODULE Spec2Model ----------------------------
(***************************************************************************)
(* Model of the two conversion scripts of the repository:                  *)
(*                                                                         *)
(*   scripts/convert_blazeface.py  (Procedure A): presence check,          *)
(*       download with curl, conversion with tf2onnx, exit status.         *)
(*   scripts/convert_minifasnet.py (Procedure B): the MiniFASNetV2         *)
(*       topology, its forward pass as shape propagation, the export and   *)
(*       the exit status.                                                  *)
(*                                                                         *)
(* Three specifications are defined over one set of variables:             *)
(*   SpecA    runs of convert_blazeface.py, one after the other, on one    *)
(*            filesystem;                                                  *)
(*   SpecFwd  MiniFASNetV2.forward applied layer by layer to input tensors *)
(*            drawn from bounded sets;                                     *)
(*   SpecB    runs of convert_minifasnet.py, whose export traces forward   *)
(*            on the dummy input main() builds.                            *)
(***************************************************************************)
EXTENDS Integers, Sequences, FiniteSets

VARIABLES
    \* ---- Procedure A (convert_blazeface.py) ----
    pcA,            \* control position of the running script
    runA,           \* index of the current run on this filesystem
    inputPresent,   \* filesystem: blaze_face_short_range.tflite exists
    outputPresent,  \* filesystem: blazeface.onnx exists
    presentAtStart, \* inputPresent as it was when the current run started
    outputAtStart,  \* outputPresent as it was when the current run started
    logA,           \* what the current run has done so far, in order
    excA,           \* class of the exception in flight or being handled
    mainRetA,       \* {} while main() has not returned, else {return value}
    exitA,          \* {} while the process has not exited, else {exit code}
    leftPresent,    \* an earlier run ended with the input file present
    prevConv,       \* outcome of the converter in the previous run
    \* ---- MiniFASNetV2.forward ----
    fwdOn,          \* a forward pass is being evaluated
    fwdArgs,        \* [embedding_size, conv6_kernel]: the constructor arguments
    fwdIn,          \* shape of the tensor forward was called with
    x,              \* shape of the local variable x of forward
    fpc,            \* index in ForwardOps of the next operation to apply
    fwdErr,         \* "none", or the error the pass stopped with
    applied,        \* names of the modules applied so far, in order
    \* ---- Procedure B (convert_minifasnet.py) ----
    pcB,            \* control position of the running script
    excB,           \* class of the exception in flight or being handled
    excSiteB,       \* where that exception was raised
    mainRetB,       \* {} while main() has not returned, else {return value}
    exitB,          \* {} while the process has not exited, else {exit code}
    diagB           \* diagnostics printed by the current run, in order

varsA == <<pcA, runA, inputPresent, outputPresent, presentAtStart, outputAtStart,
           logA, excA, mainRetA, exitA, leftPresent, prevConv>>
varsFwd == <<fwdOn, fwdArgs, fwdIn, x, fpc, fwdErr, applied>>
varsB == <<pcB, excB, excSiteB, mainRetB, exitB, diagB>>
vars == <<varsA, varsFwd, varsB>>

-----------------------------------------------------------------------------
(* Bounds of the model.                                                    *)

\* Number of consecutive runs of a script that are explored.
MaxRuns == 3

\* Exit statuses a subprocess may report are 0..MaxReturnCode.
MaxReturnCode == 2

\* Batch sizes 1..MaxBatch are given to forward.
MaxBatch == 2

\* Spatial input sizes InputSize \div d, for d in 1..MaxSizeDivisor.
MaxSizeDivisor == 10

-----------------------------------------------------------------------------
(* Python's exception classes, as far as the except clauses tell them      *)
(* apart.                                                                  *)

\* The direct base class of each exception class the scripts can meet.
ExcBase(c) ==
    CASE c = "CalledProcessError" -> "SubprocessError"
      [] c = "SubprocessError"    -> "Exception"
      [] c = "FileNotFoundError"  -> "OSError"
      [] c = "OSError"            -> "Exception"
      [] c = "RuntimeError"       -> "Exception"
      [] c = "MemoryError"        -> "Exception"
      [] c = "Exception"          -> "BaseException"
      [] c = "KeyboardInterrupt"  -> "BaseException"
      [] c = "SystemExit"         -> "BaseException"
      [] OTHER                    -> "object"

RECURSIVE IsInstance(_, _)
\* isinstance(e, d) for an exception e of class c: what `except d` matches.
IsInstance(c, d) ==
    IF c = d THEN TRUE
    ELSE IF c \in {"BaseException", "object"} THEN FALSE
    ELSE IsInstance(ExcBase(c), d)


-----------------------------------------------------------------------------
(* Procedure A: scripts/convert_blazeface.py                               *)

tflite_path == "blaze_face_short_range.tflite"
onnx_path == "../public/models/onnx/blazeface.onnx"
tflite_url == "https://storage.googleapis.com/mediapipe-models/face_detector/blaze_face_short_range/float16/1/blaze_face_short_range.tflite"

\* The argument list of the download subprocess.
CurlArgv == <<"curl", "-L", "-o", tflite_path, tflite_url>>

\* The argument list of the converter subprocess.
ConvertArgv == <<"python", "-m", "tf2onnx.convert",
                 "--tflite", tflite_path,
                 "--output", onnx_path,
                 "--opset", "13">>

\* Faulty variants of the presence check: it always downloads, it never
\* downloads, it downloads exactly when the file is there.
NeedsDownload_Always(present) == TRUE
NeedsDownload_Never(present) == FALSE
NeedsDownload_Inverted(present) == present

\* `if not os.path.exists(tflite_path)`: the download branch is taken.
NeedsDownload(present) == ~present

\* subprocess.run(..., check=...) raises CalledProcessError on this status.
CheckRaises(check, rc) == check /\ rc # 0

\* Faulty variant: the download is run without check=True.
FetchCheck_Off == FALSE

\* The check= argument of the two subprocess.run calls.
FetchCheck == TRUE
ConvertCheck == TRUE

\* Faulty variant: the except clause names an exception the converter's
\* failure is not an instance of.
ConvertExcept_OSError(c) == IsInstance(c, "OSError")

\* `except subprocess.CalledProcessError as e` around the conversion.
ConvertExcept(c) == IsInstance(c, "CalledProcessError")

\* The values main() returns.
SuccessReturn == 0
FailureReturn == 1

\* The status both handlers of the entry point exit with.
HandlerExit == 1

\* Faulty variant: the generic clause is `except BaseException` (or a bare
\* except), which also takes the SystemExit of sys.exit.
EntryHandlerA_Bare(c) ==
    IF IsInstance(c, "KeyboardInterrupt") THEN "h_interrupt"
    ELSE IF IsInstance(c, "BaseException") THEN "h_exception"
    ELSE "propagate"

\* The entry point's try statement: which clause takes an exception of class c
\* raised by sys.exit(main()).
EntryHandlerA(c) ==
    IF IsInstance(c, "KeyboardInterrupt") THEN "h_interrupt"
    ELSE IF IsInstance(c, "Exception") THEN "h_exception"
    ELSE "propagate"

Ev(e, a, r) == [ev |-> e, argv |-> a, rc |-> r]

ReturnCodes == 0..MaxReturnCode

\* Positions at which control is inside the try block of the entry point.
InTryA == {"banner", "check", "fetch", "fetching", "downloaded", "convert",
           "converting", "success", "failure", "sysexit"}
HandlersA == {"h_interrupt", "h_exception"}
TerminatedA == {"exited", "killed"}

InitA ==
    /\ pcA = "banner"
    /\ runA = 1
    /\ inputPresent \in BOOLEAN
    /\ outputPresent \in BOOLEAN
    /\ presentAtStart = inputPresent
    /\ outputAtStart = outputPresent
    /\ logA = <<>>
    /\ excA = "none"
    /\ mainRetA = {}
    /\ exitA = {}
    /\ leftPresent = FALSE
    /\ prevConv = "none"

\* An exception of class c leaves main() and reaches the entry point's try.
RaiseToEntryA(c) ==
    /\ excA' = c
    /\ pcA' = EntryHandlerA(c)

\* Lines 12-23: the banner and the two paths.
A_Banner ==
    /\ pcA = "banner"
    /\ pcA' = "check"
    /\ UNCHANGED <<runA, inputPresent, outputPresent, presentAtStart, outputAtStart,
                   logA, excA, mainRetA, exitA, leftPresent, prevConv>>
    /\ UNCHANGED <<varsFwd, varsB>>

\* Line 27: the presence check.
A_Check ==
    /\ pcA = "check"
    /\ logA' = Append(logA, Ev("exists", <<tflite_path>>, IF inputPresent THEN 1 ELSE 0))
    /\ pcA' = IF NeedsDownload(inputPresent) THEN "fetch" ELSE "convert"
    /\ UNCHANGED <<runA, inputPresent, outputPresent, presentAtStart, outputAtStart,
                   excA, mainRetA, exitA, leftPresent, prevConv>>
    /\ UNCHANGED <<varsFwd, varsB>>

\* Lines 28-32: subprocess.run is called with the curl command; it raises
\* FileNotFoundError when there is no curl executable.
A_FetchCall ==
    /\ pcA = "fetch"
    /\ \E found \in BOOLEAN :
         IF found
         THEN /\ logA' = Append(logA, Ev("call", CurlArgv, 0))
              /\ pcA' = "fetching"
              /\ UNCHANGED excA
         ELSE /\ logA' = Append(Append(logA, Ev("call", CurlArgv, 0)),
                                Ev("oserror", CurlArgv, 0))
              /\ RaiseToEntryA("FileNotFoundError")
    /\ UNCHANGED <<runA, inputPresent, outputPresent, presentAtStart, outputAtStart,
                   mainRetA, exitA, leftPresent, prevConv>>
    /\ UNCHANGED <<varsFwd, varsB>>

\* Line 32: curl has ended with status rc.  With status 0 the file is written;
\* otherwise curl may or may not have left a (partial) file behind.
A_FetchReturn ==
    /\ pcA = "fetching"
    /\ \E rc \in ReturnCodes :
         /\ logA' = Append(logA, Ev("returned", CurlArgv, rc))
         /\ IF rc = 0
            THEN inputPresent' = TRUE
            ELSE inputPresent' \in {inputPresent, TRUE}
         /\ IF CheckRaises(FetchCheck, rc)
            THEN RaiseToEntryA("CalledProcessError")
            ELSE /\ pcA' = "downloaded"
                 /\ UNCHANGED excA
    /\ UNCHANGED <<runA, outputPresent, presentAtStart, outputAtStart,
                   mainRetA, exitA, leftPresent, prevConv>>
    /\ UNCHANGED <<varsFwd, varsB>>

\* Line 33.
A_Downloaded ==
    /\ pcA = "downloaded"
    /\ logA' = Append(logA, Ev("print", <<"Downloaded">>, 0))
    /\ pcA' = "convert"
    /\ UNCHANGED <<runA, inputPresent, outputPresent, presentAtStart, outputAtStart,
                   excA, mainRetA, exitA, leftPresent, prevConv>>
    /\ UNCHANGED <<varsFwd, varsB>>

\* Lines 36-43: subprocess.run is called with the converter command; it raises
\* FileNotFoundError when there is no python executable, and that exception is
\* not the one the except clause of line 50 names.
A_ConvertCall ==
    /\ pcA = "convert"
    /\ \E found \in BOOLEAN :
         IF found
         THEN /\ logA' = Append(logA, Ev("call", ConvertArgv, 0))
              /\ pcA' = "converting"
              /\ UNCHANGED excA
         ELSE /\ logA' = Append(Append(logA, Ev("call", ConvertArgv, 0)),
                                Ev("oserror", ConvertArgv, 0))
              /\ IF ConvertExcept("FileNotFoundError")
                 THEN /\ pcA' = "failure"
                      /\ excA' = "FileNotFoundError"
                 ELSE RaiseToEntryA("FileNotFoundError")
    /\ UNCHANGED <<runA, inputPresent, outputPresent, presentAtStart, outputAtStart,
                   mainRetA, exitA, leftPresent, prevConv>>
    /\ UNCHANGED <<varsFwd, varsB>>

\* Line 43: the converter has ended with status rc.  With status 0 the output
\* file is written; otherwise it may or may not have written one.
A_ConvertReturn ==
    /\ pcA = "converting"
    /\ \E rc \in ReturnCodes :
         /\ logA' = Append(logA, Ev("returned", ConvertArgv, rc))
         /\ IF rc = 0
            THEN outputPresent' = TRUE
            ELSE outputPresent' \in {outputPresent, TRUE}
         /\ IF CheckRaises(ConvertCheck, rc)
            THEN IF ConvertExcept("CalledProcessError")
                 THEN /\ pcA' = "failure"
                      /\ excA' = "CalledProcessError"
                 ELSE RaiseToEntryA("CalledProcessError")
            ELSE /\ pcA' = "success"
                 /\ UNCHANGED excA
    /\ UNCHANGED <<runA, inputPresent, presentAtStart, outputAtStart,
                   mainRetA, exitA, leftPresent, prevConv>>
    /\ UNCHANGED <<varsFwd, varsB>>

\* Lines 44-49.
A_Success ==
    /\ pcA = "success"
    /\ logA' = Append(logA, Ev("print", <<"SUCCESS: BlazeFace ONNX model created!">>, 0))
    /\ mainRetA' = {SuccessReturn}
    /\ pcA' = "sysexit"
    /\ UNCHANGED <<runA, inputPresent, outputPresent, presentAtStart, outputAtStart,
                   excA, exitA, leftPresent, prevConv>>
    /\ UNCHANGED <<varsFwd, varsB>>

\* Lines 50-56: the except clause of the conversion.
A_Failure ==
    /\ pcA = "failure"
    /\ logA' = Append(logA, Ev("print", <<"ERROR: Conversion failed">>, 0))
    /\ mainRetA' = {FailureReturn}
    /\ excA' = "none"
    /\ pcA' = "sysexit"
    /\ UNCHANGED <<runA, inputPresent, outputPresent, presentAtStart, outputAtStart,
                   exitA, leftPresent, prevConv>>
    /\ UNCHANGED <<varsFwd, varsB>>

\* Line 60: sys.exit(main()) raises SystemExit inside the try block; unless a
\* clause of the try takes it, the process exits with main()'s return value.
A_SysExit ==
    /\ pcA = "sysexit"
    /\ IF EntryHandlerA("SystemExit") = "propagate"
       THEN /\ pcA' = "exited"
            /\ exitA' = mainRetA
            /\ UNCHANGED excA
       ELSE /\ RaiseToEntryA("SystemExit")
            /\ UNCHANGED exitA
    /\ UNCHANGED <<runA, inputPresent, outputPresent, presentAtStart, outputAtStart,
                   logA, mainRetA, leftPresent, prevConv>>
    /\ UNCHANGED <<varsFwd, varsB>>

\* A user interrupt while control is inside the try block of the entry point:
\* KeyboardInterrupt is raised at the current position, no clause of main()
\* takes it, and it reaches the entry point.  A child process that was running
\* may have left a partial file behind.
A_Interrupt ==
    /\ pcA \in InTryA
    /\ logA' = Append(logA, Ev("interrupt", <<pcA>>, 0))
    /\ RaiseToEntryA("KeyboardInterrupt")
    /\ inputPresent' \in (IF pcA = "fetching" THEN {inputPresent, TRUE} ELSE {inputPresent})
    /\ outputPresent' \in (IF pcA = "converting" THEN {outputPresent, TRUE} ELSE {outputPresent})
    /\ UNCHANGED <<runA, presentAtStart, outputAtStart, mainRetA, exitA, leftPresent, prevConv>>
    /\ UNCHANGED <<varsFwd, varsB>>

\* Lines 61-63.
A_HandleInterrupt ==
    /\ pcA = "h_interrupt"
    /\ logA' = Append(logA, Ev("print", <<"Cancelled by user">>, 0))
    /\ exitA' = {HandlerExit}
    /\ pcA' = "exited"
    /\ UNCHANGED <<runA, inputPresent, outputPresent, presentAtStart, outputAtStart,
                   excA, mainRetA, leftPresent, prevConv>>
    /\ UNCHANGED <<varsFwd, varsB>>

\* Lines 64-66.
A_HandleException ==
    /\ pcA = "h_exception"
    /\ logA' = Append(logA, Ev("print", <<"ERROR", excA>>, 0))
    /\ exitA' = {HandlerExit}
    /\ pcA' = "exited"
    /\ UNCHANGED <<runA, inputPresent, outputPresent, presentAtStart, outputAtStart,
                   excA, mainRetA, leftPresent, prevConv>>
    /\ UNCHANGED <<varsFwd, varsB>>

\* A user interrupt while a handler of the entry point is running (lines 62-63,
\* 65-66): the KeyboardInterrupt is raised outside every try block, so the
\* interpreter ends the process: killed by SIGINT (CPython 3.8 and later) or
\* with exit status 1 (earlier versions).
A_InterruptInHandler ==
    /\ pcA \in HandlersA
    /\ logA' = Append(logA, Ev("interrupt", <<pcA>>, 0))
    /\ excA' = "KeyboardInterrupt"
    /\ \/ pcA' = "killed" /\ exitA' = {}
       \/ pcA' = "exited" /\ exitA' = {1}
    /\ UNCHANGED <<runA, inputPresent, outputPresent, presentAtStart, outputAtStart,
                   mainRetA, leftPresent, prevConv>>
    /\ UNCHANGED <<varsFwd, varsB>>

\* Outcome of the converter in the run whose log is given.
ConvOutcome(log) ==
    IF \E i \in DOMAIN log : log[i] = Ev("returned", ConvertArgv, 0) THEN "ok"
    ELSE IF \E i \in DOMAIN log : log[i].ev = "call" /\ log[i].argv = ConvertArgv
         THEN "failed"
    ELSE "notrun"

\* The script is started again on the same filesystem.
A_NextRun ==
    /\ pcA \in TerminatedA
    /\ runA < MaxRuns
    /\ runA' = runA + 1
    /\ pcA' = "banner"
    /\ presentAtStart' = inputPresent
    /\ outputAtStart' = outputPresent
    /\ logA' = <<>>
    /\ excA' = "none"
    /\ mainRetA' = {}
    /\ exitA' = {}
    /\ leftPresent' = (leftPresent \/ inputPresent)
    /\ prevConv' = ConvOutcome(logA)
    /\ UNCHANGED <<inputPresent, outputPresent>>
    /\ UNCHANGED <<varsFwd, varsB>>

NextA ==
    \/ A_Banner
    \/ A_Check
    \/ A_FetchCall
    \/ A_FetchReturn
    \/ A_Downloaded
    \/ A_ConvertCall
    \/ A_ConvertReturn
    \/ A_Success
    \/ A_Failure
    \/ A_SysExit
    \/ A_Interrupt
    \/ A_HandleInterrupt
    \/ A_HandleException
    \/ A_InterruptInHandler
    \/ A_NextRun


-----------------------------------------------------------------------------
(* Procedure B: the MiniFASNetV2 topology (scripts/convert_minifasnet.py)  *)

\* torch.nn.Conv2d(in_channels, out_channels, kernel_size, stride, padding,
\* groups); kernel_size is the pair (height, width).
Conv2d(cin, cout, kernel, stride, padding, groups) ==
    [kind |-> "Conv2d", cin |-> cin, cout |-> cout, kernel |-> kernel,
     stride |-> stride, padding |-> padding, groups |-> groups]

\* torch.nn.BatchNorm2d(num_features).
BatchNorm2d(features) ==
    [kind |-> "BatchNorm2d", cin |-> features, cout |-> features, kernel |-> <<1, 1>>,
     stride |-> 1, padding |-> 0, groups |-> 1]

\* torch.nn.Linear(in_features, out_features).
Linear(cin, cout) ==
    [kind |-> "Linear", cin |-> cin, cout |-> cout, kernel |-> <<1, 1>>,
     stride |-> 1, padding |-> 0, groups |-> 1]

\* torch.nn.ReLU(inplace=True).
ReLU ==
    [kind |-> "ReLU", cin |-> 0, cout |-> 0, kernel |-> <<1, 1>>,
     stride |-> 1, padding |-> 0, groups |-> 1]

\* An integer kernel_size k stands for (k, k).
Sq(k) == <<k, k>>

\* The defaults of MiniFASNetV2.__init__ and the values main() works with.
DefaultEmbeddingSize == 128
DefaultConv6Kernel == <<5, 5>>
MainConv6Kernel == <<1, 1>>
InputChannels == 3
InputSize == 80
DummyInput == <<1, InputChannels, InputSize, InputSize>>

\* The modules MiniFASNetV2.__init__ creates.
conv1 == Conv2d(3, 32, Sq(3), 2, 1, 1)
bn1 == BatchNorm2d(32)
conv2_dw == Conv2d(32, 32, Sq(3), 1, 1, 32)
bn2_dw == BatchNorm2d(32)
conv2_sep == Conv2d(32, 64, Sq(1), 1, 0, 1)
bn2_sep == BatchNorm2d(64)
conv3_dw == Conv2d(64, 64, Sq(3), 2, 1, 64)
bn3_dw == BatchNorm2d(64)
conv3_sep == Conv2d(64, 64, Sq(1), 1, 0, 1)
bn3_sep == BatchNorm2d(64)
conv4_dw == Conv2d(64, 64, Sq(3), 1, 1, 64)
bn4_dw == BatchNorm2d(64)
conv4_sep == Conv2d(64, 128, Sq(1), 1, 0, 1)
bn4_sep == BatchNorm2d(128)
conv5_dw == Conv2d(128, 128, Sq(3), 2, 1, 128)
bn5_dw == BatchNorm2d(128)
conv5_sep == Conv2d(128, 128, Sq(1), 1, 0, 1)
\* Faulty variant: bn5_sep sized for the 64 channels block 4 starts with.
bn5_sep_64 == BatchNorm2d(64)
bn5_sep == BatchNorm2d(128)
conv6_dw(conv6_kernel) == Conv2d(128, 128, conv6_kernel, 1, 0, 128)
bn6_dw == BatchNorm2d(128)
conv6_flatten(embedding_size) == Conv2d(128, embedding_size, Sq(1), 1, 0, 1)
fc(embedding_size) == Linear(embedding_size, 2)

\* The attributes of a MiniFASNetV2(embedding_size, conv6_kernel) instance.
MiniFASNetV2(embedding_size, conv6_kernel) ==
    [conv1 |-> conv1, bn1 |-> bn1,
     conv2_dw |-> conv2_dw, bn2_dw |-> bn2_dw,
     conv2_sep |-> conv2_sep, bn2_sep |-> bn2_sep,
     conv3_dw |-> conv3_dw, bn3_dw |-> bn3_dw,
     conv3_sep |-> conv3_sep, bn3_sep |-> bn3_sep,
     conv4_dw |-> conv4_dw, bn4_dw |-> bn4_dw,
     conv4_sep |-> conv4_sep, bn4_sep |-> bn4_sep,
     conv5_dw |-> conv5_dw, bn5_dw |-> bn5_dw,
     conv5_sep |-> conv5_sep, bn5_sep |-> bn5_sep,
     conv6_dw |-> conv6_dw(conv6_kernel), bn6_dw |-> bn6_dw,
     conv6_flatten |-> conv6_flatten(embedding_size),
     fc |-> fc(embedding_size),
     relu |-> ReLU]

\* The operations of MiniFASNetV2.forward in the order they are applied to x:
\* self.relu(self.bn(self.conv(x))) applies conv, then bn, then relu.
ForwardOps ==
    <<"conv1", "bn1", "relu",
      "conv2_dw", "bn2_dw", "relu",
      "conv2_sep", "bn2_sep", "relu",
      "conv3_dw", "bn3_dw", "relu",
      "conv3_sep", "bn3_sep", "relu",
      "conv4_dw", "bn4_dw", "relu",
      "conv4_sep", "bn5_sep", "relu",
      "conv5_dw", "bn5_dw", "relu",
      "conv5_sep", "bn5_sep", "relu",
      "conv6_dw", "bn6_dw", "relu",
      "conv6_flatten",
      "view",
      "fc">>

\* Output size of a convolution along one axis.
ConvOut(n, k, stride, padding) == ((n + 2 * padding - k) \div stride) + 1

\* Conv2d.forward on a tensor of shape s: the error it raises, or "none".
ConvError(m, s) ==
    IF Len(s) # 4 THEN "dims"
    ELSE IF s[2] # m.cin THEN "channels"
    ELSE IF \/ s[3] + 2 * m.padding < m.kernel[1]
            \/ s[4] + 2 * m.padding < m.kernel[2] THEN "kernel"
    ELSE "none"

\* Conv2d.forward on a tensor of shape s: the shape of the result.
ConvShape(m, s) ==
    <<s[1], m.cout,
      ConvOut(s[3], m.kernel[1], m.stride, m.padding),
      ConvOut(s[4], m.kernel[2], m.stride, m.padding)>>

\* BatchNorm2d.forward (evaluation mode) on a tensor of shape s.
BatchNormError(m, s) ==
    IF Len(s) # 4 THEN "dims"
    ELSE IF s[2] # m.cin THEN "channels"
    ELSE "none"

\* x.view(x.size(0), -1) on a tensor of shape s = (N, C, H, W).
ViewShape(s) == <<s[1], s[2] * s[3] * s[4]>>

\* Linear.forward on a tensor of shape s = (N, F).
LinearError(m, s) == IF s[Len(s)] # m.cin THEN "features" ELSE "none"
LinearShape(m, s) == <<s[1], m.cout>>

\* The module instance forward works on, and the module its next operation uses.
Self == MiniFASNetV2(fwdArgs.embedding_size, fwdArgs.conv6_kernel)
NextOp == ForwardOps[fpc]
FwdRunning == fwdOn /\ fwdErr = "none" /\ fpc <= Len(ForwardOps)
FwdReturned == fwdOn /\ fwdErr = "none" /\ fpc > Len(ForwardOps)
FwdRaised == fwdOn /\ fwdErr # "none"

\* forward(x) is entered with a tensor of the given shape.
FwdCall(shape) ==
    /\ fwdOn' = TRUE
    /\ fwdIn' = shape
    /\ x' = shape
    /\ fpc' = 1
    /\ fwdErr' = "none"
    /\ applied' = <<>>

FwdIdle ==
    /\ fwdOn = FALSE
    /\ fwdArgs = [embedding_size |-> DefaultEmbeddingSize, conv6_kernel |-> DefaultConv6Kernel]
    /\ fwdIn = DummyInput
    /\ x = DummyInput
    /\ fpc = 1
    /\ fwdErr = "none"
    /\ applied = <<>>

\* One operation of forward either raises (the pass stops) or assigns x.
FwdStep(err, shape) ==
    /\ applied' = Append(applied, NextOp)
    /\ IF err # "none"
       THEN /\ fwdErr' = err
            /\ UNCHANGED <<x, fpc>>
       ELSE /\ x' = shape
            /\ fpc' = fpc + 1
            /\ UNCHANGED fwdErr
    /\ UNCHANGED <<fwdOn, fwdArgs, fwdIn>>

F_Conv ==
    /\ FwdRunning
    /\ NextOp # "view"
    /\ Self[NextOp].kind = "Conv2d"
    /\ FwdStep(ConvError(Self[NextOp], x), ConvShape(Self[NextOp], x))
    /\ UNCHANGED <<varsA, varsB>>

F_BatchNorm ==
    /\ FwdRunning
    /\ NextOp # "view"
    /\ Self[NextOp].kind = "BatchNorm2d"
    /\ FwdStep(BatchNormError(Self[NextOp], x), x)
    /\ UNCHANGED <<varsA, varsB>>

F_ReLU ==
    /\ FwdRunning
    /\ NextOp # "view"
    /\ Self[NextOp].kind = "ReLU"
    /\ FwdStep("none", x)
    /\ UNCHANGED <<varsA, varsB>>

F_View ==
    /\ FwdRunning
    /\ NextOp = "view"
    /\ FwdStep("none", ViewShape(x))
    /\ UNCHANGED <<varsA, varsB>>

F_Linear ==
    /\ FwdRunning
    /\ NextOp # "view"
    /\ Self[NextOp].kind = "Linear"
    /\ FwdStep(LinearError(Self[NextOp], x), LinearShape(Self[NextOp], x))
    /\ UNCHANGED <<varsA, varsB>>

\* The inputs forward is explored on.
BatchSizes == 1..MaxBatch
InputSizes == {InputSize \div d : d \in 1..MaxSizeDivisor}
Conv6Kernels == {MainConv6Kernel, DefaultConv6Kernel}

InitFwd ==
    /\ fwdOn = TRUE
    /\ fwdArgs \in [embedding_size : {DefaultEmbeddingSize}, conv6_kernel : Conv6Kernels]
    /\ fwdIn \in {<<n, InputChannels, h, w>> : n \in BatchSizes, h \in InputSizes, w \in InputSizes}
    /\ x = fwdIn
    /\ fpc = 1
    /\ fwdErr = "none"
    /\ applied = <<>>


-----------------------------------------------------------------------------
(* Procedure B: main() and the entry point of convert_minifasnet.py        *)

minifasnet_output_path == "../public/models/onnx/minifasnet_v2.onnx"

\* Faulty variant: the except clause takes operating-system errors only.
ExportExcept_OSError(c) == IsInstance(c, "OSError")

\* `except Exception as e` around torch.onnx.export.
ExportExcept(c) == IsInstance(c, "Exception")

\* The values main() returns.
ExportSuccessReturn == 0
ExportFailureReturn == 1

\* The status both handlers of the entry point exit with.
HandlerExitB == 1

\* The entry point's try statement, as in Procedure A.
EntryHandlerB(c) ==
    IF IsInstance(c, "KeyboardInterrupt") THEN "h_interrupt"
    ELSE IF IsInstance(c, "Exception") THEN "h_exception"
    ELSE "propagate"

\* Exceptions the libraries may raise for reasons outside the script.
LibraryErrors == {"RuntimeError", "MemoryError", "OSError"}

\* Positions inside the try block of the entry point, and those of them that
\* are also inside the try block of main().
InTryB == {"banner", "construct", "created", "export", "tracing",
           "success", "failure", "sysexit"}
InExportTryB == {"export", "tracing"}
HandlersB == {"h_interrupt", "h_exception"}
TerminatedB == {"exited", "killed"}

InitB ==
    /\ pcB = "banner"
    /\ excB = "none"
    /\ excSiteB = "none"
    /\ mainRetB = {}
    /\ exitB = {}
    /\ diagB = <<>>

\* An exception of class c raised at the given site leaves main().
RaiseToEntryB(c, site) ==
    /\ excB' = c
    /\ excSiteB' = site
    /\ pcB' = EntryHandlerB(c)

\* An exception of class c is raised inside the try block of main().
RaiseInExportB(c) ==
    IF ExportExcept(c)
    THEN /\ excB' = c
         /\ excSiteB' = "export"
         /\ pcB' = "failure"
    ELSE RaiseToEntryB(c, "export")

\* Lines 72-77.
B_Banner ==
    /\ pcB = "banner"
    /\ pcB' = "construct"
    /\ UNCHANGED <<excB, excSiteB, mainRetB, exitB, diagB>>
    /\ UNCHANGED varsFwd
    /\ UNCHANGED varsA

\* Lines 80-82: MiniFASNetV2(conv6_kernel=(1, 1)) and model.eval().  The
\* statement is outside the try block of main(): an exception the library
\* raises here leaves main().
B_Construct ==
    /\ pcB = "construct"
    /\ \/ /\ fwdArgs' = [embedding_size |-> DefaultEmbeddingSize,
                         conv6_kernel |-> MainConv6Kernel]
          /\ pcB' = "created"
          /\ UNCHANGED <<excB, excSiteB>>
       \/ /\ \E c \in LibraryErrors : RaiseToEntryB(c, "construct")
          /\ UNCHANGED fwdArgs
    /\ UNCHANGED <<mainRetB, exitB, diagB>>
    /\ UNCHANGED <<fwdOn, fwdIn, x, fpc, fwdErr, applied>>
    /\ UNCHANGED varsA

\* Lines 88-91: the message and dummy_input = torch.randn(1, 3, 80, 80).
B_Created ==
    /\ pcB = "created"
    /\ diagB' = Append(diagB, "Model created")
    /\ pcB' = "export"
    /\ UNCHANGED <<excB, excSiteB, mainRetB, exitB>>
    /\ UNCHANGED varsFwd
    /\ UNCHANGED varsA

\* Lines 93-106: torch.onnx.export(model, dummy_input, ...) runs the model on
\* dummy_input to trace it.
B_Export ==
    /\ pcB = "export"
    /\ diagB' = Append(diagB, "Exporting to ONNX...")
    /\ FwdCall(DummyInput)
    /\ UNCHANGED fwdArgs
    /\ pcB' = "tracing"
    /\ UNCHANGED <<excB, excSiteB, mainRetB, exitB>>
    /\ UNCHANGED varsA

\* The traced forward pass has ended.  An error it raised is raised by
\* torch.onnx.export; otherwise the graph is serialized to output_path, which
\* the library may fail to do.
B_ExportEnd ==
    /\ pcB = "tracing"
    /\ FwdReturned \/ FwdRaised
    /\ IF FwdRaised
       THEN RaiseInExportB("RuntimeError")
       ELSE \/ /\ pcB' = "success"
               /\ UNCHANGED <<excB, excSiteB>>
            \/ \E c \in LibraryErrors : RaiseInExportB(c)
    /\ fwdOn' = FALSE
    /\ UNCHANGED <<mainRetB, exitB, diagB>>
    /\ UNCHANGED <<fwdArgs, fwdIn, x, fpc, fwdErr, applied>>
    /\ UNCHANGED varsA

\* Lines 107-116 (the export returned) and lines 117-122 (the except clause):
\* the summary is printed and main() returns.
B_Return ==
    /\ pcB \in {"success", "failure"}
    /\ diagB' = Append(diagB, IF pcB = "success"
                              THEN "SUCCESS: MiniFASNetV2 ONNX model created!"
                              ELSE "ERROR: Export failed")
    /\ mainRetB' = {IF pcB = "success" THEN ExportSuccessReturn ELSE ExportFailureReturn}
    /\ pcB' = "sysexit"
    /\ UNCHANGED <<excB, excSiteB, exitB>>
    /\ UNCHANGED varsFwd
    /\ UNCHANGED varsA

\* Line 126: sys.exit(main()).
B_SysExit ==
    /\ pcB = "sysexit"
    /\ IF EntryHandlerB("SystemExit") = "propagate"
       THEN /\ pcB' = "exited"
            /\ exitB' = mainRetB
            /\ UNCHANGED <<excB, excSiteB>>
       ELSE /\ RaiseToEntryB("SystemExit", "sysexit")
            /\ UNCHANGED exitB
    /\ UNCHANGED <<mainRetB, diagB>>
    /\ UNCHANGED varsFwd
    /\ UNCHANGED varsA

\* A user interrupt while control is inside the try block of the entry point.
B_Interrupt ==
    /\ pcB \in InTryB
    /\ IF pcB \in InExportTryB
       THEN RaiseInExportB("KeyboardInterrupt")
       ELSE RaiseToEntryB("KeyboardInterrupt", pcB)
    /\ fwdOn' = FALSE
    /\ UNCHANGED <<mainRetB, exitB, diagB>>
    /\ UNCHANGED <<fwdArgs, fwdIn, x, fpc, fwdErr, applied>>
    /\ UNCHANGED varsA

\* Lines 127-129.
B_HandleInterrupt ==
    /\ pcB = "h_interrupt"
    /\ diagB' = Append(diagB, "Cancelled by user")
    /\ exitB' = {HandlerExitB}
    /\ pcB' = "exited"
    /\ UNCHANGED <<excB, excSiteB, mainRetB>>
    /\ UNCHANGED varsFwd
    /\ UNCHANGED varsA

\* Lines 130-132.
B_HandleException ==
    /\ pcB = "h_exception"
    /\ diagB' = Append(diagB, "ERROR")
    /\ exitB' = {HandlerExitB}
    /\ pcB' = "exited"
    /\ UNCHANGED <<excB, excSiteB, mainRetB>>
    /\ UNCHANGED varsFwd
    /\ UNCHANGED varsA

\* A user interrupt while a handler of the entry point is running: the
\* interpreter ends the process, killed by SIGINT or with exit status 1.
B_InterruptInHandler ==
    /\ pcB \in HandlersB
    /\ excB' = "KeyboardInterrupt"
    /\ excSiteB' = pcB
    /\ \/ pcB' = "killed" /\ exitB' = {}
       \/ pcB' = "exited" /\ exitB' = {1}
    /\ UNCHANGED <<mainRetB, diagB>>
    /\ UNCHANGED varsFwd
    /\ UNCHANGED varsA

NextB ==
    \/ B_Banner
    \/ B_Construct
    \/ B_Created
    \/ B_Export
    \/ F_Conv
    \/ F_BatchNorm
    \/ F_ReLU
    \/ F_View
    \/ F_Linear
    \/ B_ExportEnd
    \/ B_Return
    \/ B_SysExit
    \/ B_Interrupt
    \/ B_HandleInterrupt
    \/ B_HandleException
    \/ B_InterruptInHandler

-----------------------------------------------------------------------------
(* The specifications.                                                     *)

\* Procedure A is not running.
IdleA ==
    /\ pcA = "exited"
    /\ runA = MaxRuns
    /\ inputPresent = FALSE
    /\ outputPresent = FALSE
    /\ presentAtStart = FALSE
    /\ outputAtStart = FALSE
    /\ logA = <<>>
    /\ excA = "none"
    /\ mainRetA = {}
    /\ exitA = {}
    /\ leftPresent = FALSE
    /\ prevConv = "none"

\* Procedure B is not running.
IdleB ==
    /\ pcB = "exited"
    /\ excB = "none"
    /\ excSiteB = "none"
    /\ mainRetB = {}
    /\ exitB = {}
    /\ diagB = <<>>

\* Runs of convert_blazeface.py.
InitSpecA == InitA /\ FwdIdle /\ IdleB
SpecA == InitSpecA /\ [][NextA]_vars

\* MiniFASNetV2.forward on the inputs of InitFwd.
InitSpecFwd == InitFwd /\ IdleA /\ IdleB
NextFwd ==
    \/ F_Conv
    \/ F_BatchNorm
    \/ F_ReLU
    \/ F_View
    \/ F_Linear
SpecFwd == InitSpecFwd /\ [][NextFwd]_vars

\* A run of convert_minifasnet.py.
InitSpecB == InitB /\ FwdIdle /\ IdleA
SpecB == InitSpecB /\ [][NextB]_vars


-----------------------------------------------------------------------------
(* What a run of Procedure A has done, read from its log.                  *)

IsCall(e, argv) == e.ev = "call" /\ e.argv = argv
FetchCallsAt == {i \in DOMAIN logA : IsCall(logA[i], CurlArgv)}
ConvCallsAt == {i \in DOMAIN logA : IsCall(logA[i], ConvertArgv)}
FetchCalls == Cardinality(FetchCallsAt)
ConvCalls == Cardinality(ConvCallsAt)
FetchOkAt == {i \in DOMAIN logA : logA[i] = Ev("returned", CurlArgv, 0)}
FetchNonZero ==
    \E i \in DOMAIN logA :
        logA[i].ev = "returned" /\ logA[i].argv = CurlArgv /\ logA[i].rc # 0
ConvReturnedZero == \E i \in DOMAIN logA : logA[i] = Ev("returned", ConvertArgv, 0)
ConvNonZero ==
    \E i \in DOMAIN logA :
        logA[i].ev = "returned" /\ logA[i].argv = ConvertArgv /\ logA[i].rc # 0
InterruptedA == \E i \in DOMAIN logA : logA[i].ev = "interrupt"
Printed(text) == \E i \in DOMAIN logA : logA[i].ev = "print" /\ logA[i].argv[1] = text

-----------------------------------------------------------------------------
(* Claims about Procedure A (checked under SpecA).                         *)

\* C2: a run of main() that starts with the input file present never calls
\* the curl subprocess, whatever the conversion step does afterwards.
C2_NoFetchWhenPresent ==
    presentAtStart => FetchCalls = 0

\* C2, its case: a run that started with the file present has run the
\* converter, which failed, and has exited, without any download.
C2_Witness ==
    /\ presentAtStart
    /\ pcA = "exited"
    /\ ConvNonZero
    /\ FetchCalls = 0

\* C3: a run that starts with the input file absent has made exactly one
\* fetch, and that fetch has returned successfully, before the converter is
\* invoked; no converter call comes before the presence check, nor, when the
\* check found the file absent, before the completed fetch; a run makes at
\* most one fetch and at most one converter call, and a run that started with
\* the file absent and ended without a user interrupt made exactly one fetch.
C3_FetchBeforeConvert ==
    /\ FetchCalls <= 1
    /\ ConvCalls <= 1
    /\ \A i \in ConvCallsAt :
         /\ \E j \in 1..(i - 1) : logA[j].ev = "exists"
         /\ ~presentAtStart =>
              /\ Cardinality({j \in FetchCallsAt : j < i}) = 1
              /\ \E k \in FetchOkAt : k < i /\ \A j \in FetchCallsAt : j < k
    /\ \A i \in FetchCallsAt : \E j \in 1..(i - 1) : logA[j] = Ev("exists", <<tflite_path>>, 0)
    /\ (~presentAtStart /\ pcA \in TerminatedA /\ ~InterruptedA) => FetchCalls = 1

\* C3, its case: the file was absent, the fetch was made and the converter
\* has been invoked after it.
C3_Witness ==
    /\ ~presentAtStart
    /\ FetchCalls = 1
    /\ ConvCalls = 1
    /\ pcA = "converting"

\* C4: when the converter subprocess exits with a non-zero status, the
\* CalledProcessError is taken by the except clause of main() and never
\* reaches the entry point; in a run that no user interrupt cuts short,
\* main() then prints the diagnostic and returns 1, and the process exits
\* with code 1.
C4_ConversionFailureHandled ==
    ConvNonZero =>
        /\ ~(pcA = "h_exception")
        /\ (pcA \in HandlersA \/ pcA = "killed") => InterruptedA
        /\ pcA = "exited" => exitA = {1}
        /\ (pcA \in TerminatedA /\ ~InterruptedA) =>
              /\ mainRetA = {1}
              /\ Printed("ERROR: Conversion failed")
              /\ pcA = "exited"

\* C4, its case: the converter failed, main() returned 1 and the process
\* exited with code 1.
C4_Witness ==
    /\ ConvNonZero
    /\ pcA = "exited"
    /\ mainRetA = {1}
    /\ exitA = {1}
    /\ ~InterruptedA

\* C5: when the input file is absent and the download command exits with a
\* non-zero status, main() does not handle the failure (it never returns and
\* prints nothing more), the converter is never invoked in that run, the
\* exception reaches the generic handler of the entry point, and the process
\* exits with code 1 (unless a user interrupt arrives while that handler is
\* running).
C5_DownloadFailurePropagates ==
    FetchNonZero =>
        /\ ~presentAtStart
        /\ ConvCalls = 0
        /\ mainRetA = {}
        /\ ~Printed("Downloaded")
        /\ pcA \in {"h_exception"} \cup TerminatedA
        /\ pcA = "exited" => exitA = {1}
        /\ (pcA \in TerminatedA /\ ~InterruptedA) =>
              /\ pcA = "exited"
              /\ excA = "CalledProcessError"
              /\ Printed("ERROR")

\* C5, its case: the download failed and the process has exited with code 1
\* through the entry point's generic handler.
C5_Witness ==
    /\ FetchNonZero
    /\ pcA = "exited"
    /\ exitA = {1}
    /\ excA = "CalledProcessError"

\* C6 as stated: every terminated run has exit code 0 or 1, and the code is 0
\* exactly when the converter was invoked exactly once, with the fixed
\* arguments, and returned zero.
C6_AsStated ==
    pcA \in TerminatedA =>
        /\ exitA \in {{0}, {1}}
        /\ exitA = {0} <=> (ConvCalls = 1 /\ ConvReturnedZero)

\* C6 as amended: a run that exits through sys.exit has exit code 0 or 1; a
\* run ends otherwise only when a user interrupt arrives while a handler of
\* the entry point is running.  The exit code is 0 exactly when the converter
\* subprocess was invoked exactly once, with the input path, the output path
\* and operator-set version 13, returned zero, and no user interrupt was
\* raised in the run; every other run that exits has code 1.  The SystemExit
\* of a successful main() is not taken by the generic handler.
C6_ExitCodes ==
    /\ pcA = "exited" => exitA \in {{0}, {1}}
    /\ pcA = "exited" =>
         (exitA = {0} <=> (ConvCalls = 1 /\ ConvReturnedZero /\ ~InterruptedA))
    /\ pcA = "killed" =>
         /\ exitA = {}
         /\ logA[Len(logA)].ev = "interrupt"
         /\ logA[Len(logA)].argv[1] \in HandlersA
    /\ \A i \in DOMAIN logA :
         (logA[i].ev = "call" /\ logA[i].argv[1] = "python") =>
            logA[i].argv = <<"python", "-m", "tf2onnx.convert",
                             "--tflite", "blaze_face_short_range.tflite",
                             "--output", "../public/models/onnx/blazeface.onnx",
                             "--opset", "13">>
    /\ (pcA = "h_exception" \/ (pcA = "exited" /\ Printed("ERROR"))) => mainRetA = {}
    /\ mainRetA = {0} => (pcA \in {"sysexit", "h_interrupt"} \cup TerminatedA)
    /\ (pcA = "exited" /\ mainRetA = {0} /\ ~InterruptedA) => exitA = {0}

\* C6, its case (end-to-end scenario 1): the file was missing, the download
\* and the conversion succeeded, and the process exited with code 0.
C6_Witness ==
    /\ ~presentAtStart
    /\ pcA = "exited"
    /\ exitA = {0}
    /\ FetchCalls = 1
    /\ ConvCalls = 1

\* C9: the input file, once present, stays present; in every run after one
\* that ended with the input file present no fetch is made, and the converter
\* is still invoked exactly once if no user interrupt cuts the run short (at
\* most once otherwise), whether or not the output file existed when the run
\* started and whatever the converter did in the run before.
C9_LaterRuns ==
    leftPresent =>
        /\ inputPresent
        /\ presentAtStart
        /\ FetchCalls = 0
        /\ ConvCalls <= 1
        /\ (pcA \in TerminatedA /\ ~InterruptedA) => ConvCalls = 1
        /\ (pcA \in {"converting", "success", "failure"}) => ConvCalls = 1

\* C9, its case: a later run, started with the output file already there
\* after a run whose conversion succeeded, has invoked the converter again
\* and made no fetch.
C9_Witness ==
    /\ leftPresent
    /\ runA > 1
    /\ prevConv = "ok"
    /\ outputAtStart
    /\ pcA = "exited"
    /\ ConvCalls = 1
    /\ FetchCalls = 0

-----------------------------------------------------------------------------
(* Claims about MiniFASNetV2.forward (checked under SpecFwd).              *)

OpIndex(name) == CHOOSE i \in DOMAIN ForwardOps : ForwardOps[i] = name
Times(name) == Cardinality({i \in DOMAIN applied : applied[i] = name})
MainModel == fwdArgs = [embedding_size |-> DefaultEmbeddingSize,
                        conv6_kernel |-> MainConv6Kernel]

\* C1 as stated: forward, on the model main() constructs and an input of shape
\* (1, 3, 80, 80), raises nothing and returns a tensor of shape (1, 2).
C1_AsStated ==
    (MainModel /\ fwdIn = <<1, 3, 80, 80>> /\ (FwdReturned \/ FwdRaised)) =>
        /\ fwdErr = "none"
        /\ x = <<1, 2>>

\* C7 as stated: on the model main() constructs and an 80x80 input, the
\* feature map leaving conv6_dw has spatial size 1x1.
C7_AsStated ==
    (MainModel /\ fwdIn[3] = 80 /\ fwdIn[4] = 80 /\ fwdErr = "none"
       /\ fpc = OpIndex("conv6_dw") + 1) =>
        /\ x[3] = 1
        /\ x[4] = 1

\* C10: every convolution and every normalization forward applies, from conv1
\* through conv6_flatten, receives a tensor with as many channels as the layer
\* declares; no step of forward raises a channel-count error; conv4_sep is
\* followed by bn5_sep, and once conv6_flatten has been applied bn5_sep has
\* been applied twice and bn4_sep never.
C10_ChannelsMatch ==
    /\ (FwdRunning /\ NextOp # "view") =>
         (Self[NextOp].kind \in {"Conv2d", "BatchNorm2d"} =>
            /\ Len(x) = 4
            /\ x[2] = Self[NextOp].cin)
    /\ fwdErr \notin {"channels", "dims"}
    /\ \A i \in DOMAIN applied :
         (applied[i] = "conv4_sep" /\ i < Len(applied)) => applied[i + 1] = "bn5_sep"
    /\ (fwdOn /\ fpc > OpIndex("conv6_flatten")) =>
         /\ Times("bn5_sep") = 2
         /\ Times("bn4_sep") = 0
    /\ (fwdOn /\ fpc = OpIndex("conv6_flatten") + 1) => x[2] = fwdArgs.embedding_size

\* C10, its case: on the model and the input of main(), forward has applied
\* every layer through conv6_flatten without an error.
C10_Witness ==
    /\ MainModel
    /\ fwdIn = DummyInput
    /\ fwdErr = "none"
    /\ fpc = OpIndex("conv6_flatten") + 1
    /\ Times("bn5_sep") = 2

-----------------------------------------------------------------------------
(* Claims about main() of Procedure B (checked under SpecB).               *)

\* C8 as stated: an exception raised during model construction or during the
\* export is taken inside main(), which then returns 1.
C8_AsStated ==
    (excSiteB \in {"construct", "export"} /\ IsInstance(excB, "Exception")) =>
        /\ pcB \notin HandlersB
        /\ pcB \in TerminatedB => mainRetB = {1}

\* C8 as amended: an Exception raised during the export is taken by the
\* except clause of main(), which prints the diagnostic and returns 1, and the
\* process exits with code 1; an exception raised during model construction
\* (before the try block of main()) leaves main(), which never returns, and is
\* taken by the generic handler of the entry point, which prints a diagnostic
\* and exits with code 1.
C8_ExportErrorsCaught ==
    /\ (excSiteB = "export" /\ IsInstance(excB, "Exception")) =>
         /\ pcB \in {"failure", "sysexit", "exited"}
         /\ pcB \in {"sysexit", "exited"} =>
              /\ mainRetB = {1}
              /\ diagB[Len(diagB)] = "ERROR: Export failed"
         /\ pcB = "exited" => exitB = {1}
    /\ (excSiteB = "construct" /\ IsInstance(excB, "Exception")) =>
         /\ mainRetB = {}
         /\ pcB \in {"h_exception", "exited"}
         /\ pcB = "exited" =>
              /\ exitB = {1}
              /\ diagB[Len(diagB)] = "ERROR"

\* C8, its case: the export raised, main() returned 1 and the process exited
\* with code 1.
C8_Witness ==
    /\ excSiteB = "export"
    /\ excB = "RuntimeError"
    /\ pcB = "exited"
    /\ mainRetB = {1}
    /\ exitB = {1}

=============================================================================
